---- MODULE Spec2Model ----
(***************************************************************************)
(* groggy: a registry of named log channels (name -> handler) and the      *)
(* dispatch of log events to the registered handler (src/groggy.go).       *)
(*                                                                         *)
(* A Go string is modelled as a sequence of text tokens, so that rendering *)
(* (fmt.Sprintf, the default handler's output) is computed and not assumed.*)
(* A goroutine is a caller; goroutine Main is the one that sets the        *)
(* registry up, the others are the goroutines it spawns.                   *)
(***************************************************************************)
EXTENDS Integers, Sequences, FiniteSets, TLC

\* Longest variadic data sequence passed to Log / Logsf.
MaxData == 2
\* Number of spawned goroutines calling Log concurrently (42 in the test).
NCallers == 2

Main == 0
Workers == 1..NCallers
Callers == {Main} \cup Workers

\* Channel names used by the callers.
Names == {"a", "b"}

VARIABLES
    handlers,      \* the global registry: a Go map, as a set of <<name, handler>> entries
    handlerMutex,  \* the global sync.Mutex: TRUE when locked
    out,           \* standard output: the fragments written, in order, each with its writer
    pc,            \* where each goroutine is
    call,          \* the arguments of each goroutine's current Log / Logsf call
    inv,           \* the handler invocations made by each goroutine's current call
    idx,           \* DefaultHandler's loop index in each goroutine
    hres,          \* what the handler invoked by each goroutine's call returned
    ret,           \* what each goroutine's call returned
    everReg,       \* history: the names passed to Register so far
    lastReg,       \* history: the last registry operation on each name
    replaced       \* history: the last Register on the name replaced a different handler

vars == <<handlers, handlerMutex, out, pc, call, inv, idx, hres, ret, everReg, lastReg, replaced>>

----------------------------------------------------------------------------
(* Values *)

\* The handler arguments a caller passes to Register. "nil" is the nil func.
NilHandler == "nil"
DefaultHandlerFn == "DefaultHandler"
DefaultSyncHandlerFn == "DefaultSyncHandler"
\* The custom handler of the test suite, and a caller-supplied handler that fails.
LogEventHandlerFn == "LogEventHandler"
ErrHandlerFn == "ErrHandler"
HandlerFns == {DefaultHandlerFn, DefaultSyncHandlerFn, LogEventHandlerFn, ErrHandlerFn}
HandlerArgs == HandlerFns \cup {NilHandler}

\* interface{} values: a string, an int, a value whose String() returns, and a
\* nil pointer whose String() method dereferences its receiver (it panics).
StrItem(s) == [type |-> "string", val |-> s]
IntItem == [type |-> "int", val |-> <<"5">>]
StringerItem == [type |-> "Level", val |-> <<"seven">>]
NilStringerItem == [type |-> "*T", val |-> <<"<nil>">>]
PlainStr == StrItem(<<"x">>)
TemplateStr == StrItem(<<"%d", " apples">>)
Items == {PlainStr, TemplateStr, IntItem, StringerItem, NilStringerItem}

IsString(it) == it.type = "string"
\* The type switch's fmt.Stringer case: the value has a String() method.
IsStringer(it) == it.type \in {"Level", "*T"}
StringPanics(it) == it.type = "*T"

RECURSIVE SeqsUpTo(_, _)
SeqsUpTo(S, n) ==
    IF n = 0 THEN {<<>>}
    ELSE LET shorter == SeqsUpTo(S, n - 1)
         IN  shorter \cup {Append(s, x) : s \in {t \in shorter : Len(t) = n - 1}, x \in S}

DataSeqs == SeqsUpTo(Items, MaxData)

\* error values, the nil error, and a panic unwinding out of the call
NilErr == [kind |-> "nil", msg |-> <<>>]
ErrorOf(msg) == [kind |-> "error", msg |-> msg]
PanicOf(msg) == [kind |-> "panic", msg |-> msg]

NotRegisteredErr(logName) == ErrorOf(<<"No log handler found for ", logName, ".">>)
BadFormatErr == ErrorOf(<<"A format string was not passed as the second parameter.">>)
HandlerErr == ErrorOf(<<"handler failed">>)
IndexPanic == PanicOf(<<"index out of range">>)
NilDerefPanic == PanicOf(<<"nil pointer dereference">>)
\* No result: the handler has not returned.
NoResult == [kind |-> "none", msg |-> <<>>]

NoCall == [op |-> "none", name |-> "", data |-> <<>>]

NoInv == <<>>

----------------------------------------------------------------------------
(* fmt: the part of the formatting library the package uses *)

Verbs == {"%d", "%v"}
VerbChar(verb) == IF verb = "%d" THEN "d" ELSE "v"

\* One operand under one verb. %v uses String() where there is one (fmt
\* recovers a nil receiver's panic and prints <nil>); %d prints the integer
\* under the value, and flags a string as a bad operand.
FormatArg(verb, it) ==
    IF verb = "%v" THEN it.val
    ELSE CASE it.type = "int"    -> it.val
           [] it.type = "string" -> <<"%!d(string=">> \o it.val \o <<")">>
           [] it.type = "Level"  -> <<"7">>
           [] OTHER              -> <<"0">>

RECURSIVE ExtraArgs(_)
ExtraArgs(args) ==
    IF args = <<>> THEN <<>>
    ELSE <<Head(args).type, "=">> \o FormatArg("%v", Head(args))
         \o (IF Tail(args) = <<>> THEN <<>> ELSE <<", ">>)
         \o ExtraArgs(Tail(args))

\* Mutant: the operands are dropped and the format is returned as it is.
SprintfKeepsFormat(format, args) == format

\* fmt.Sprintf(format, args...): each verb consumes the next operand; a verb
\* with no operand left prints %!d(MISSING), operands left over are listed in
\* a trailing %!(EXTRA ...).
RECURSIVE Sprintf(_, _)
Sprintf(format, args) ==
    IF format = <<>>
    THEN IF args = <<>> THEN <<>> ELSE <<"%!(EXTRA ">> \o ExtraArgs(args) \o <<")">>
    ELSE IF Head(format) \in Verbs
         THEN IF args = <<>>
              THEN <<"%!", VerbChar(Head(format)), "(MISSING)">> \o Sprintf(Tail(format), args)
              ELSE FormatArg(Head(format), Head(args)) \o Sprintf(Tail(format), Tail(args))
         ELSE <<Head(format)>> \o Sprintf(Tail(format), args)

----------------------------------------------------------------------------
(* The registry map *)

MapHas(m, k) == \E e \in m : e[1] = k
MapGet(m, k) == {e[2] : e \in {x \in m : x[1] = k}}
\* Mutant: the assignment adds an entry and keeps the one already there.
MapAssignAdds(m, k, v) == m \cup {<<k, v>>}
\* m[k] = v
MapAssign(m, k, v) == {e \in m : e[1] # k} \cup {<<k, v>>}
\* Mutant: the deletion leaves the entry in the map.
MapDeleteKeeps(m, k) == m
\* Mutant: delete empties the map.
MapDeleteAll(m, k) == {}
\* delete(m, k)
MapDelete(m, k) == {e \in m : e[1] # k}

\* Mutant: a nil handler is stored as it is.
EffectiveHandlerKeepsNil(handler) == handler
\* Register's choice of handler: DefaultHandler for a nil argument.
EffectiveHandler(handler) == IF handler = NilHandler THEN DefaultHandlerFn ELSE handler

----------------------------------------------------------------------------
(* The default handler's output *)

Timestamp == "15:04:05.000"
Frag(c, text) == [by |-> c, text |-> text]

\* fmt.Printf("%s %s: ", now.Format(layout), logName)
HeaderText(logName) == <<Timestamp, " ", logName, ": ">>
\* Mutant: the type switch has no fmt.Stringer case.
RenderItemWithoutStringer(it) ==
    IF IsString(it) THEN it.val
    ELSE <<"<unknown log data type ">> \o FormatArg("%v", it) \o <<">">>
\* The type switch over one data item.
RenderItem(it) ==
    IF IsString(it) THEN it.val
    ELSE IF IsStringer(it) THEN it.val
    ELSE <<"<unknown log data type ">> \o FormatArg("%v", it) \o <<">">>
NewlineText == <<"\n">>

----------------------------------------------------------------------------
(* State *)

Init ==
    /\ handlers = {}
    /\ handlerMutex = FALSE
    /\ out = <<>>
    /\ pc = [c \in Callers |-> "idle"]
    /\ call = [c \in Callers |-> NoCall]
    /\ inv = [c \in Callers |-> NoInv]
    /\ idx = [c \in Callers |-> 0]
    /\ hres = [c \in Callers |-> NoResult]
    /\ ret = [c \in Callers |-> NoResult]
    /\ everReg = {}
    /\ lastReg = [n \in Names |-> "none"]
    /\ replaced = [n \in Names |-> FALSE]

\* No call is in flight in any goroutine but c.
OthersIdle(c) == \A d \in Callers \ {c} : pc[d] = "idle"

----------------------------------------------------------------------------
(* Registry operations *)

Register(c, newLogName, handler) ==
    /\ pc[c] = "idle"
    /\ handlers' = MapAssign(handlers, newLogName, EffectiveHandler(handler))
    /\ replaced' = [replaced EXCEPT ![newLogName] =
                       /\ lastReg[newLogName] \in HandlerArgs
                       /\ EffectiveHandler(lastReg[newLogName]) # EffectiveHandler(handler)]
    /\ lastReg' = [lastReg EXCEPT ![newLogName] = handler]
    /\ everReg' = everReg \cup {newLogName}
    /\ UNCHANGED <<handlerMutex, out, pc, call, inv, idx, hres, ret>>

Deregister(c, logName) ==
    /\ pc[c] = "idle"
    /\ handlers' = MapDelete(handlers, logName)
    /\ lastReg' = [lastReg EXCEPT ![logName] = "Deregister"]
    /\ replaced' = [replaced EXCEPT ![logName] = FALSE]
    /\ UNCHANGED <<handlerMutex, out, pc, call, inv, idx, hres, ret, everReg>>

----------------------------------------------------------------------------
(* Dispatch *)

\* Mutant: DefaultHandler starts by taking the mutex too.
EntryPointLocksDefault(h) ==
    IF h \in {DefaultSyncHandlerFn, DefaultHandlerFn} THEN "lock" ELSE "custom"
\* Where the body of handler h starts.
EntryPoint(h) ==
    CASE h = DefaultSyncHandlerFn -> "lock"
      [] h = DefaultHandlerFn     -> "header"
      [] OTHER                    -> "custom"

\* The call h(logName, data...): the goroutine enters the handler's body.
Invoke(c, h, logName, data) ==
    /\ inv' = [inv EXCEPT ![c] = <<[h |-> h, name |-> logName, data |-> data]>>]
    /\ idx' = [idx EXCEPT ![c] = 1]
    /\ pc' = [pc EXCEPT ![c] = EntryPoint(h)]
    /\ hres' = [hres EXCEPT ![c] = NoResult]
    /\ ret' = [ret EXCEPT ![c] = NoResult]

\* The call ends before any handler is entered, with result r.
ReturnEarly(c, r) ==
    /\ inv' = [inv EXCEPT ![c] = NoInv]
    /\ idx' = [idx EXCEPT ![c] = 0]
    /\ pc' = [pc EXCEPT ![c] = "returned"]
    /\ hres' = [hres EXCEPT ![c] = NoResult]
    /\ ret' = [ret EXCEPT ![c] = r]

\* Mutant: a name that is not registered is registered by the failing call.
LogAutoRegisters(c, logName, data) ==
    /\ pc[c] = "idle"
    /\ call' = [call EXCEPT ![c] = [op |-> "Log", name |-> logName, data |-> data]]
    /\ IF ~MapHas(handlers, logName)
       THEN /\ ReturnEarly(c, NotRegisteredErr(logName))
            /\ handlers' = MapAssign(handlers, logName, DefaultHandlerFn)
       ELSE /\ \E h \in MapGet(handlers, logName) : Invoke(c, h, logName, data)
            /\ UNCHANGED handlers
    /\ UNCHANGED <<handlerMutex, out, everReg, lastReg, replaced>>

\* Mutant: the handler is called without the first data item.
LogDropsFirstItem(c, logName, data) ==
    /\ pc[c] = "idle"
    /\ call' = [call EXCEPT ![c] = [op |-> "Log", name |-> logName, data |-> data]]
    /\ IF ~MapHas(handlers, logName)
       THEN ReturnEarly(c, NotRegisteredErr(logName))
       ELSE \E h \in MapGet(handlers, logName) :
                Invoke(c, h, logName, IF data = <<>> THEN data ELSE Tail(data))
    /\ UNCHANGED <<handlers, handlerMutex, out, everReg, lastReg, replaced>>

\* Mutant: a name that is not registered is sent to the default handler.
LogFallsBack(c, logName, data) ==
    /\ pc[c] = "idle"
    /\ call' = [call EXCEPT ![c] = [op |-> "Log", name |-> logName, data |-> data]]
    /\ IF ~MapHas(handlers, logName)
       THEN Invoke(c, DefaultHandlerFn, logName, data)
       ELSE \E h \in MapGet(handlers, logName) : Invoke(c, h, logName, data)
    /\ UNCHANGED <<handlers, handlerMutex, out, everReg, lastReg, replaced>>

Log(c, logName, data) ==
    /\ pc[c] = "idle"
    /\ call' = [call EXCEPT ![c] = [op |-> "Log", name |-> logName, data |-> data]]
    /\ IF ~MapHas(handlers, logName)
       THEN ReturnEarly(c, NotRegisteredErr(logName))
       ELSE \E h \in MapGet(handlers, logName) : Invoke(c, h, logName, data)
    /\ UNCHANGED <<handlers, handlerMutex, out, everReg, lastReg, replaced>>

\* Mutant: the data is examined before the registry is looked up.
LogsfChecksDataFirst(c, logName, data) ==
    /\ pc[c] = "idle"
    /\ call' = [call EXCEPT ![c] = [op |-> "Logsf", name |-> logName, data |-> data]]
    /\ IF data = <<>>
       THEN ReturnEarly(c, IndexPanic)
       ELSE IF ~IsString(data[1])
       THEN ReturnEarly(c, BadFormatErr)
       ELSE IF ~MapHas(handlers, logName)
       THEN ReturnEarly(c, NotRegisteredErr(logName))
       ELSE \E h \in MapGet(handlers, logName) :
                Invoke(c, h, logName, <<StrItem(Sprintf(data[1].val, Tail(data)))>>)
    /\ UNCHANGED <<handlers, handlerMutex, out, everReg, lastReg, replaced>>

\* Mutant: the first item is formatted without the check that it is a string.
LogsfUnchecked(c, logName, data) ==
    /\ pc[c] = "idle"
    /\ call' = [call EXCEPT ![c] = [op |-> "Logsf", name |-> logName, data |-> data]]
    /\ IF ~MapHas(handlers, logName)
       THEN ReturnEarly(c, NotRegisteredErr(logName))
       ELSE IF data = <<>>
       THEN ReturnEarly(c, IndexPanic)
       ELSE \E h \in MapGet(handlers, logName) :
                Invoke(c, h, logName, <<StrItem(Sprintf(data[1].val, Tail(data)))>>)
    /\ UNCHANGED <<handlers, handlerMutex, out, everReg, lastReg, replaced>>

Logsf(c, logName, data) ==
    /\ pc[c] = "idle"
    /\ call' = [call EXCEPT ![c] = [op |-> "Logsf", name |-> logName, data |-> data]]
    /\ IF ~MapHas(handlers, logName)
       THEN ReturnEarly(c, NotRegisteredErr(logName))
       ELSE IF data = <<>>
       THEN ReturnEarly(c, IndexPanic)              \* data[0] of an empty slice
       ELSE IF ~IsString(data[1])
       THEN ReturnEarly(c, BadFormatErr)
       ELSE \E h \in MapGet(handlers, logName) :
                Invoke(c, h, logName, <<StrItem(Sprintf(data[1].val, Tail(data)))>>)
    /\ UNCHANGED <<handlers, handlerMutex, out, everReg, lastReg, replaced>>

----------------------------------------------------------------------------
(* Handlers *)

CurInv(c) == inv[c][1]

\* Mutant: Log reports success whatever the handler returned.
LogReturnDropsError(r) == NilErr
\* Log: return h(logName, data...)
LogReturn(r) == r
\* Logsf: return h(logName, s)
LogsfReturn(r) == r
\* The handler called by goroutine c returns r to Log / Logsf, which returns.
HandlerReturns(c, r) ==
    /\ pc' = [pc EXCEPT ![c] = "returned"]
    /\ hres' = [hres EXCEPT ![c] = r]
    /\ ret' = [ret EXCEPT ![c] = IF call[c].op = "Logsf" THEN LogsfReturn(r) ELSE LogReturn(r)]
\* A panic unwinds the handler and the call; the caller recovers it.
HandlerPanics(c, p) ==
    /\ pc' = [pc EXCEPT ![c] = "returned"]
    /\ ret' = [ret EXCEPT ![c] = p]
    /\ UNCHANGED hres

\* Mutant: one lock per channel; Lock waits for the callers of its own channel only.
LockPerChannel(c) ==
    /\ pc[c] = "lock"
    /\ \A d \in Callers \ {c} :
          ~ /\ pc[d] \in {"header", "item", "newline", "unlock"}
            /\ inv[d] # <<>>
            /\ inv[d][1].h = DefaultSyncHandlerFn
            /\ inv[d][1].name = CurInv(c).name
    /\ handlerMutex' = TRUE
    /\ pc' = [pc EXCEPT ![c] = "header"]
    /\ UNCHANGED <<handlers, out, call, inv, idx, hres, ret, everReg, lastReg, replaced>>

\* Mutant: Lock does not wait for the mutex.
MutexNeverHeld(m) == TRUE
\* handlerMutex.Lock(): blocks while the mutex is held.
MutexFree(m) == m = FALSE

Lock(c) ==
    /\ pc[c] = "lock"
    /\ MutexFree(handlerMutex)
    /\ handlerMutex' = TRUE
    /\ pc' = [pc EXCEPT ![c] = "header"]
    /\ UNCHANGED <<handlers, out, call, inv, idx, hres, ret, everReg, lastReg, replaced>>

PrintHeader(c) ==
    /\ pc[c] = "header"
    /\ out' = Append(out, Frag(c, HeaderText(CurInv(c).name)))
    /\ pc' = [pc EXCEPT ![c] = IF CurInv(c).data = <<>> THEN "newline" ELSE "item"]
    /\ UNCHANGED <<handlers, handlerMutex, call, inv, idx, hres, ret, everReg, lastReg, replaced>>

\* One iteration of the loop over data. v.String() is called by the handler
\* itself, so a panic in it unwinds DefaultHandler and its callers.
PrintItem(c) ==
    /\ pc[c] = "item"
    /\ LET it == CurInv(c).data[idx[c]]
       IN  IF ~IsString(it) /\ IsStringer(it) /\ StringPanics(it)
           THEN /\ HandlerPanics(c, NilDerefPanic)
                /\ UNCHANGED <<out, idx>>
           ELSE /\ out' = Append(out, Frag(c, RenderItem(it)))
                /\ idx' = [idx EXCEPT ![c] = idx[c] + 1]
                /\ pc' = [pc EXCEPT ![c] =
                             IF idx[c] = Len(CurInv(c).data) THEN "newline" ELSE "item"]
                /\ UNCHANGED <<hres, ret>>
    /\ UNCHANGED <<handlers, handlerMutex, call, inv, everReg, lastReg, replaced>>

\* fmt.Print("\n"); return nil -- back in DefaultSyncHandler when it made the call.
PrintNewline(c) ==
    /\ pc[c] = "newline"
    /\ out' = Append(out, Frag(c, NewlineText))
    /\ IF CurInv(c).h = DefaultSyncHandlerFn
       THEN /\ pc' = [pc EXCEPT ![c] = "unlock"]
            /\ UNCHANGED <<hres, ret>>
       ELSE HandlerReturns(c, NilErr)
    /\ UNCHANGED <<handlers, handlerMutex, call, inv, idx, everReg, lastReg, replaced>>

\* Mutant: DefaultSyncHandler returns without releasing the mutex.
UnlockKeepsMutex(c) ==
    /\ pc[c] = "unlock"
    /\ HandlerReturns(c, NilErr)
    /\ UNCHANGED <<handlers, handlerMutex, out, call, inv, idx, everReg, lastReg, replaced>>

\* handlerMutex.Unlock(); return nil
Unlock(c) ==
    /\ pc[c] = "unlock"
    /\ handlerMutex' = FALSE
    /\ HandlerReturns(c, NilErr)
    /\ UNCHANGED <<handlers, out, call, inv, idx, everReg, lastReg, replaced>>

\* LogEventHandler of the test suite on items that are no *EventTest: one
\* placeholder per item, no newline, nil.
RECURSIVE EventHandlerOutput(_, _)
EventHandlerOutput(c, data) ==
    IF data = <<>> THEN <<>>
    ELSE <<Frag(c, <<"<unknown log data type ">> \o FormatArg("%v", Head(data)) \o <<">">>)>>
         \o EventHandlerOutput(c, Tail(data))

\* What a caller-supplied handler returns.
CustomResult(h) == IF h = ErrHandlerFn THEN HandlerErr ELSE NilErr

RunCustom(c) ==
    /\ pc[c] = "custom"
    /\ out' = IF CurInv(c).h = LogEventHandlerFn
              THEN out \o EventHandlerOutput(c, CurInv(c).data)
              ELSE out
    /\ HandlerReturns(c, CustomResult(CurInv(c).h))
    /\ UNCHANGED <<handlers, handlerMutex, call, inv, idx, everReg, lastReg, replaced>>

\* The caller takes the result and goes on. out holds what was written since
\* the program was last quiescent.
Finish(c) ==
    /\ pc[c] = "returned"
    /\ pc' = [pc EXCEPT ![c] = "idle"]
    /\ call' = [call EXCEPT ![c] = NoCall]
    /\ inv' = [inv EXCEPT ![c] = NoInv]
    /\ idx' = [idx EXCEPT ![c] = 0]
    /\ hres' = [hres EXCEPT ![c] = NoResult]
    /\ ret' = [ret EXCEPT ![c] = NoResult]
    /\ out' = IF OthersIdle(c) THEN <<>> ELSE out
    /\ UNCHANGED <<handlers, handlerMutex, everReg, lastReg, replaced>>

\* A step inside DefaultHandler or DefaultSyncHandler.
DefaultStep(c) ==
    \/ Lock(c)
    \/ PrintHeader(c)
    \/ PrintItem(c)
    \/ PrintNewline(c)
    \/ Unlock(c)

HandlerStep(c) ==
    \/ DefaultStep(c)
    \/ RunCustom(c)

----------------------------------------------------------------------------
(* One goroutine using the whole API, one call after the other *)

Next ==
    \/ \E n \in Names, h \in HandlerArgs : Register(Main, n, h)
    \/ \E n \in Names : Deregister(Main, n)
    \/ \E n \in Names, d \in DataSeqs : Log(Main, n, d)
    \/ \E n \in Names, d \in DataSeqs : Logsf(Main, n, d)
    \/ HandlerStep(Main)
    \/ Finish(Main)

Spec == Init /\ [][Next]_vars

----------------------------------------------------------------------------
(* Main sets the registry up before the goroutines it spawns start; each    *)
(* spawned goroutine makes one Log call with its own payload, as in         *)
(* TestDefaultSyncLogger. The registry is not written while a Log may read  *)
(* it: the map is not synchronized and the callers must serialize that.     *)

Payload(w) == <<StrItem(<<"This is a synchronized test number ", ToString(w), "!">>)>>
ConcHandlers == {DefaultHandlerFn, DefaultSyncHandlerFn}

NextConc ==
    \/ \E n \in Names, h \in ConcHandlers : OthersIdle(Main) /\ Register(Main, n, h)
    \/ \E n \in Names : OthersIdle(Main) /\ Deregister(Main, n)
    \/ \E w \in Workers, n \in Names : Log(w, n, Payload(w))
    \/ \E w \in Workers : DefaultStep(w)

SpecConc == Init /\ [][NextConc]_vars

----------------------------------------------------------------------------
(* The spawned goroutines log through DefaultSyncHandler only, with Log or  *)
(* Logsf, and the Go scheduler lets every goroutine that can run take its   *)
(* next step: a goroutine blocked in handlerMutex.Lock() is woken when the  *)
(* mutex is released, and each goroutine makes one call.                    *)

NextFair ==
    \/ \E n \in Names : OthersIdle(Main) /\ Register(Main, n, DefaultSyncHandlerFn)
    \/ \E w \in Workers, n \in Names : Log(w, n, Payload(w))
    \/ \E w \in Workers, n \in Names : Logsf(w, n, Payload(w))
    \/ \E w \in Workers : DefaultStep(w)

Fairness == \A w \in Workers : WF_vars(DefaultStep(w))

SpecFair == Init /\ [][NextFair]_vars /\ Fairness

----------------------------------------------------------------------------
(* The registry map under concurrent use. An access to the map takes time:  *)
(* it begins, and later it is done. Register, Deregister and the lookup of  *)
(* Log begin their access as soon as they are called. Two accesses that     *)
(* overlap, one of them a write, are a data race: the Go runtime may stop   *)
(* the program ("fatal error: concurrent map writes" / "concurrent map read *)
(* and map write"), a raced write may be lost, or the accesses come out in  *)
(* some order.                                                              *)

RaceHandlers == {DefaultSyncHandlerFn}
RaceNames == {"a"}

MapWriting(c) == pc[c] \in {"mapassign", "mapdelete"}
MapReading(c) == pc[c] = "mapaccess"
InMapAccess(c) == MapWriting(c) \/ MapReading(c)

\* Mutant: an access waits until no other goroutine is accessing the map.
MapAccessExclusive(c) == \A d \in Callers \ {c} : ~InMapAccess(d)
\* What an access waits for before it begins: nothing, there is no lock.
MapAccessAllowed(c) == TRUE

\* Goroutine c begins an access (a write if write is TRUE) for call cl: the
\* accesses in progress that conflict with it are raced, and so is c's.
BeginAccess(c, position, write, cl) ==
    /\ pc[c] = "idle"
    /\ MapAccessAllowed(c)
    /\ pc' = [pc EXCEPT ![c] = position]
    /\ call' = [d \in Callers |->
                  IF d = c
                  THEN [cl EXCEPT !.raced =
                           \E o \in Callers \ {c} : InMapAccess(o) /\ (write \/ MapWriting(o))]
                  ELSE IF InMapAccess(d) /\ (write \/ MapWriting(d))
                  THEN [call[d] EXCEPT !.raced = TRUE]
                  ELSE call[d]]
    /\ UNCHANGED <<handlers, handlerMutex, out, inv, idx, hres, ret, everReg, lastReg, replaced>>

\* handlers[newLogName] = h begins.
BeginRegister(c, newLogName, handler) ==
    BeginAccess(c, "mapassign", TRUE,
                [op |-> "Register", name |-> newLogName, data |-> <<>>,
                 handler |-> handler, raced |-> FALSE])

\* delete(handlers, logName) begins.
BeginDeregister(c, logName) ==
    BeginAccess(c, "mapdelete", TRUE,
                [op |-> "Deregister", name |-> logName, data |-> <<>>,
                 handler |-> NilHandler, raced |-> FALSE])

\* h, okay := handlers[logName] begins.
BeginLookup(c, logName, data) ==
    BeginAccess(c, "mapaccess", FALSE,
                [op |-> "Log", name |-> logName, data |-> data,
                 handler |-> NilHandler, raced |-> FALSE])

\* What a write leaves in the map: the written map, or, raced, the map without the write.
WriteOutcomes(c, written) == IF call[c].raced THEN {written, handlers} ELSE {written}

\* The assignment is done and Register returns.
EndRegister(c) ==
    /\ pc[c] = "mapassign"
    /\ handlers' \in WriteOutcomes(c, MapAssign(handlers, call[c].name,
                                                EffectiveHandler(call[c].handler)))
    /\ replaced' = [replaced EXCEPT ![call[c].name] =
                       /\ lastReg[call[c].name] \in HandlerArgs
                       /\ EffectiveHandler(lastReg[call[c].name])
                            # EffectiveHandler(call[c].handler)]
    /\ lastReg' = [lastReg EXCEPT ![call[c].name] = call[c].handler]
    /\ everReg' = everReg \cup {call[c].name}
    /\ pc' = [pc EXCEPT ![c] = "idle"]
    /\ call' = [call EXCEPT ![c] = NoCall]
    /\ UNCHANGED <<handlerMutex, out, inv, idx, hres, ret>>

\* The delete is done and Deregister returns.
EndDeregister(c) ==
    /\ pc[c] = "mapdelete"
    /\ handlers' \in WriteOutcomes(c, MapDelete(handlers, call[c].name))
    /\ lastReg' = [lastReg EXCEPT ![call[c].name] = "Deregister"]
    /\ replaced' = [replaced EXCEPT ![call[c].name] = FALSE]
    /\ pc' = [pc EXCEPT ![c] = "idle"]
    /\ call' = [call EXCEPT ![c] = NoCall]
    /\ UNCHANGED <<handlerMutex, out, inv, idx, hres, ret, everReg>>

\* The lookup is done and Log goes on with what it found.
EndLookup(c) ==
    /\ pc[c] = "mapaccess"
    /\ IF ~MapHas(handlers, call[c].name)
       THEN ReturnEarly(c, NotRegisteredErr(call[c].name))
       ELSE \E h \in MapGet(handlers, call[c].name) :
                Invoke(c, h, call[c].name, call[c].data)
    /\ UNCHANGED <<handlers, handlerMutex, out, call, everReg, lastReg, replaced>>

\* The runtime finds the map in use by two goroutines and stops the program.
Fatal ==
    /\ \E c \in Callers : InMapAccess(c) /\ call[c].raced
    /\ pc' = [c \in Callers |-> "fatal"]
    /\ UNCHANGED <<handlers, handlerMutex, out, call, inv, idx, hres, ret,
                   everReg, lastReg, replaced>>

NextRace ==
    \/ \E c \in Callers, n \in RaceNames, h \in RaceHandlers : BeginRegister(c, n, h)
    \/ \E c \in Callers, n \in RaceNames : BeginDeregister(c, n)
    \/ \E w \in Workers, n \in RaceNames : BeginLookup(w, n, Payload(w))
    \/ \E c \in Callers : EndRegister(c)
    \/ \E c \in Callers : EndDeregister(c)
    \/ \E w \in Workers : EndLookup(w)
    \/ \E w \in Workers : DefaultStep(w)
    \/ Fatal

SpecRace == Init /\ [][NextRace]_vars

----------------------------------------------------------------------------
(* Properties *)

\* What goroutine c has written to standard output.
Wrote(c) == SelectSeq(out, LAMBDA f : f.by = c)
\* Goroutine c has called op and the call has not been taken back by the caller.
InCall(c, op) == pc[c] # "idle" /\ call[c].op = op
\* The name's last registry operation was a Register.
Registered(n) == lastReg[n] \in HandlerArgs

\* C1: the registry starts empty, and Log on a name that was never passed to
\* Register returns at once the error "No log handler found for <name>.",
\* having invoked no handler and written nothing, whatever was registered or
\* deregistered under other names.
C1_NeverRegisteredLogFails ==
    /\ (everReg = {} => handlers = {})
    /\ \A c \in Callers :
         (InCall(c, "Log") /\ call[c].name \notin everReg)
         => /\ pc[c] = "returned"
            /\ ret[c] = [kind |-> "error",
                         msg |-> <<"No log handler found for ", call[c].name, ".">>]
            /\ inv[c] = <<>>
            /\ hres[c].kind = "none"
            /\ Wrote(c) = <<>>

\* A Log on a never registered name has returned while the other name is registered.
C1_Witness ==
    \E c \in Callers :
        /\ pc[c] = "returned" /\ call[c].op = "Log"
        /\ call[c].name \notin everReg
        /\ call[c].data # <<>>
        /\ \E m \in Names \ {call[c].name} : Registered(m) /\ MapHas(handlers, m)

\* C2: when the last registry operation on a name is Deregister, Log on that
\* name returns the not-registered error and invokes no handler, also when the
\* name was registered before.
C2_DeregisterThenLogFails ==
    \A c \in Callers :
        (InCall(c, "Log") /\ lastReg[call[c].name] = "Deregister")
        => /\ pc[c] = "returned"
           /\ ret[c] = [kind |-> "error",
                        msg |-> <<"No log handler found for ", call[c].name, ".">>]
           /\ inv[c] = <<>>
           /\ hres[c].kind = "none"

\* A Log has failed on a name that was registered and then deregistered.
C2_Witness ==
    \E c \in Callers :
        /\ pc[c] = "returned" /\ call[c].op = "Log"
        /\ lastReg[call[c].name] = "Deregister"
        /\ call[c].name \in everReg
        /\ ret[c].kind = "error"

\* C3: the registry holds at most one handler per name, and after a Register
\* that replaced a different handler under the name, a Log on the name invokes
\* the handler of that last Register, once, and no other.
C3_RegisterReplaces ==
    /\ \A n \in Names : Cardinality(MapGet(handlers, n)) <= 1
    /\ \A c \in Callers :
         (InCall(c, "Log") /\ Registered(call[c].name) /\ replaced[call[c].name])
         => /\ Len(inv[c]) = 1
            /\ inv[c][1].h = (IF lastReg[call[c].name] = "nil" THEN "DefaultHandler"
                              ELSE lastReg[call[c].name])

\* A Log has returned from the handler that replaced another one under its name.
C3_Witness ==
    \E c \in Callers :
        /\ pc[c] = "returned" /\ call[c].op = "Log"
        /\ Registered(call[c].name) /\ replaced[call[c].name]
        /\ Len(inv[c]) = 1
        /\ hres[c].kind # "none"

\* The handler the name's last Register put in the registry.
RegisteredHandler(n) == IF lastReg[n] = "nil" THEN "DefaultHandler" ELSE lastReg[n]
\* The registry holds what the Register and Deregister calls made it hold.
RegistryAsRegistered ==
    \A n \in Names :
        MapGet(handlers, n) = (IF Registered(n) THEN {RegisteredHandler(n)} ELSE {})
\* Goroutine c is inside DefaultSyncHandler.
InsideSync(c) ==
    /\ pc[c] \in {"lock", "header", "item", "newline", "unlock"}
    /\ inv[c] # <<>>
    /\ inv[c][1].h = "DefaultSyncHandler"

\* C5: DefaultSyncHandler releases the lock on every exit path, also when the
\* inner DefaultHandler call exits abnormally: whenever no goroutine is inside
\* DefaultSyncHandler the global mutex is free.
C5_LockFreeWhenNobodyInside ==
    (\A c \in Callers : ~InsideSync(c)) => handlerMutex = FALSE

\* C6: Logsf on a registered name with no data returns the bad-format error
\* as an ordinary error value and invokes no handler.
C6_EmptyLogsfReturnsError ==
    \A c \in Callers :
        (InCall(c, "Logsf") /\ Registered(call[c].name) /\ call[c].data = <<>>)
        => /\ pc[c] = "returned"
           /\ ret[c] = [kind |-> "error",
                        msg |-> <<"A format string was not passed as the second parameter.">>]
           /\ inv[c] = <<>>

\* C7: Logsf on a registered name whose first data item is not a string
\* returns the bad-format error, invokes no handler, writes nothing and
\* leaves the registry as it was.
C7_NonStringFormatRejected ==
    \A c \in Callers :
        (/\ InCall(c, "Logsf") /\ Registered(call[c].name)
         /\ call[c].data # <<>> /\ call[c].data[1].type # "string")
        => /\ pc[c] = "returned"
           /\ ret[c] = [kind |-> "error",
                        msg |-> <<"A format string was not passed as the second parameter.">>]
           /\ inv[c] = <<>>
           /\ hres[c].kind = "none"
           /\ Wrote(c) = <<>>
           /\ RegistryAsRegistered

\* Logsf has rejected a non-string first item followed by a further item.
C7_Witness ==
    \E c \in Callers :
        /\ pc[c] = "returned" /\ call[c].op = "Logsf"
        /\ Registered(call[c].name)
        /\ Len(call[c].data) = 2 /\ call[c].data[1].type = "int"
        /\ ret[c].kind = "error"

\* C8: Logsf on a registered name with a string template invokes the
\* registered handler once, with the channel name and the single string that
\* the template renders to with data[1:], and returns what the handler returns.
C8_LogsfDispatchesRendered ==
    \A c \in Callers :
        (/\ InCall(c, "Logsf") /\ Registered(call[c].name)
         /\ call[c].data # <<>> /\ call[c].data[1].type = "string")
        => /\ Len(inv[c]) = 1
           /\ inv[c][1].h = RegisteredHandler(call[c].name)
           /\ inv[c][1].name = call[c].name
           /\ inv[c][1].data =
                 <<[type |-> "string", val |-> Sprintf(call[c].data[1].val, Tail(call[c].data))]>>
           /\ (call[c].data = <<TemplateStr, IntItem>>
               => inv[c][1].data[1].val = <<"5", " apples">>)
           /\ (call[c].data = <<TemplateStr>>
               => inv[c][1].data[1].val = <<"%!", "d", "(MISSING)", " apples">>)
           /\ (call[c].data = <<PlainStr, IntItem>>
               => inv[c][1].data[1].val = <<"x", "%!(EXTRA ", "int", "=", "5", ")">>)
           /\ (pc[c] = "returned" => hres[c].kind # "none" /\ ret[c] = hres[c])

\* Logsf("%d apples", 5) has returned from the handler it dispatched "5 apples" to.
C8_Witness ==
    \E c \in Callers :
        /\ pc[c] = "returned" /\ call[c].op = "Logsf"
        /\ call[c].data = <<TemplateStr, IntItem>>
        /\ Len(inv[c]) = 1
        /\ hres[c].kind # "none"

\* C9: what the registered handler returns, nil or an error, is what Log and
\* Logsf return, neither replaced by nil nor wrapped nor replaced by one of
\* the dispatcher's own errors.
C9_HandlerResultPassedThrough ==
    \A c \in Callers :
        (pc[c] = "returned" /\ inv[c] # <<>> /\ hres[c].kind # "none")
        => /\ ret[c] = hres[c]
           /\ (inv[c][1].h = "ErrHandler"
               => ret[c] = [kind |-> "error", msg |-> <<"handler failed">>])
           /\ (inv[c][1].h # "ErrHandler" => ret[c] = [kind |-> "nil", msg |-> <<>>])

\* Log has returned the error of the handler it dispatched to.
C9_Witness ==
    \E c \in Callers :
        /\ pc[c] = "returned" /\ call[c].op = "Log"
        /\ inv[c] # <<>> /\ inv[c][1].h = "ErrHandler"
        /\ hres[c].kind = "error" /\ ret[c].kind = "error"

HasPanickingStringer(data) == \E i \in 1..Len(data) : data[i].type = "*T"

InWriteSequence(c) == InsideSync(c) /\ pc[c] # "lock"
\* Every call made so far went to DefaultSyncHandler under one channel name.
AllSyncSameName ==
    \A c \in Callers : inv[c] # <<>> =>
        /\ inv[c][1].h = "DefaultSyncHandler"
        /\ \A d \in Callers : inv[d] # <<>> => inv[d][1].name = inv[c][1].name
\* The fragments of goroutine c lie next to each other in the output.
Contiguous(c) ==
    \A i, j \in 1..Len(out) :
        (out[i].by = c /\ out[j].by = c) => \A k \in i..j : out[k].by = c
\* The line a default handler writes for goroutine c's string payload.
LineOf(c) ==
    <<[by |-> c, text |-> <<"15:04:05.000", " ", inv[c][1].name, ": ">>]>>
    \o [i \in 1..Len(inv[c][1].data) |-> [by |-> c, text |-> inv[c][1].data[i].val]]
    \o <<[by |-> c, text |-> <<"\n">>]>>
IsPrefix(s, t) == Len(s) <= Len(t) /\ s = SubSeq(t, 1, Len(s))
Newlines == {i \in 1..Len(out) : out[i].text = <<"\n">>}

\* C4: at most one goroutine is in DefaultSyncHandler's write sequence at a
\* time, and when the concurrent calls all go to DefaultSyncHandler under one
\* channel name, the output is whole lines: each caller's fragments lie
\* together and are its own line (timestamp and name, payload, newline), and
\* the callers that have returned have written one line each.
C4_SyncLinesNotInterleaved ==
    /\ Cardinality({c \in Callers : InWriteSequence(c)}) <= 1
    /\ AllSyncSameName =>
         /\ \A c \in Callers : inv[c] # <<>> =>
              /\ Contiguous(c)
              /\ IsPrefix(Wrote(c), LineOf(c))
              /\ (pc[c] \in {"unlock", "returned"} => Wrote(c) = LineOf(c))
              /\ (pc[c] = "lock" => Wrote(c) = <<>>)
         /\ \A i \in 1..Len(out) : inv[out[i].by] # <<>>
         /\ Cardinality(Newlines)
              = Cardinality({c \in Callers : inv[c] # <<>> /\ pc[c] \in {"unlock", "returned"}})

\* All the spawned goroutines have logged through DefaultSyncHandler under
\* one name and returned.
C4_Witness ==
    /\ AllSyncSameName
    /\ \A w \in Workers : pc[w] = "returned" /\ inv[w] # <<>> /\ ret[w].kind = "nil"
    /\ Cardinality(Newlines) = NCallers
    /\ Len(out) = 3 * NCallers

\* The text of a sequence of output fragments.
RECURSIVE FlatText(_)
FlatText(frags) ==
    IF frags = <<>> THEN <<>> ELSE Head(frags).text \o FlatText(Tail(frags))
\* How the default handler is to render an item: a string verbatim, a value
\* with a String() method by its result, anything else as the placeholder.
ExpectedRendering(it) ==
    CASE it.type = "string" -> it.val
      [] it.type = "Level"  -> <<"seven">>
      [] it.type = "int"    -> <<"<unknown log data type ", "5", ">">>
      [] OTHER              -> it.val
RECURSIVE ExpectedRenderings(_)
ExpectedRenderings(data) ==
    IF data = <<>> THEN <<>>
    ELSE ExpectedRendering(Head(data)) \o ExpectedRenderings(Tail(data))
ExpectedLine(name, data) ==
    <<"15:04:05.000", " ", name, ": ">> \o ExpectedRenderings(data) \o <<"\n">>
\* The items in front of the first one whose String() panics.
RECURSIVE BeforePanic(_)
BeforePanic(data) ==
    IF data = <<>> \/ Head(data).type = "*T" THEN <<>>
    ELSE <<Head(data)>> \o BeforePanic(Tail(data))
\* Goroutine c's call went to handler h and the call has ended.
EndedIn(c, h) == pc[c] = "returned" /\ inv[c] # <<>> /\ inv[c][1].h = h

InPlain(c) == inv[c] # <<>> /\ inv[c][1].h = "DefaultHandler"

\* C12: the plain DefaultHandler is not safe for concurrent use: it writes
\* its line in separate steps (timestamp and name, each item, newline)
\* without taking or waiting for the mutex, so a goroutine in the middle of
\* its line never keeps another one from writing. The witness is the
\* resulting state: one call's line with another call's fragment inside.
C12_PlainHandlerWritesUnprotected ==
    \A c \in Callers :
        InPlain(c)
        => /\ pc[c] \notin {"lock", "unlock"}
           /\ (pc[c] \in {"header", "item", "newline"} => ENABLED DefaultStep(c))
           /\ (pc[c] = "returned" => Len(Wrote(c)) = Len(inv[c][1].data) + 2)

\* Between the start of one plain call's line and its newline the output
\* holds a fragment written by another plain call.
C12_Witness ==
    \E c, d \in Callers :
        /\ c # d /\ InPlain(c) /\ InPlain(d)
        /\ \E i, j, k \in 1..Len(out) :
              /\ i < j /\ j < k
              /\ out[i].by = c /\ out[i].text[1] = "15:04:05.000"
              /\ out[j].by = d
              /\ out[k].by = c /\ out[k].text = <<"\n">>

\* C14: Logsf on a name that is not registered fails as Log does: whatever
\* the data, the empty sequence and a non-string first item included, it
\* returns the error "No log handler found for <name>.", invokes no handler
\* and writes nothing.
C14_LogsfUnregisteredFailsLikeLog ==
    \A c \in Callers :
        (pc[c] # "idle" /\ call[c].op \in {"Log", "Logsf"} /\ ~Registered(call[c].name))
        => /\ pc[c] = "returned"
           /\ ret[c] = [kind |-> "error",
                        msg |-> <<"No log handler found for ", call[c].name, ".">>]
           /\ inv[c] = <<>>
           /\ hres[c].kind = "none"
           /\ Wrote(c) = <<>>

\* Logsf with no data has failed on a name that is not registered.
C14_Witness ==
    \E c \in Callers :
        /\ pc[c] = "returned" /\ call[c].op = "Logsf"
        /\ ~Registered(call[c].name)
        /\ call[c].data = <<>>
        /\ ret[c].kind = "error"

\* C15: Log on a registered name calls the registered handler, and no other,
\* exactly once, with the channel name and the data items of the Log call in
\* the same order and number; when Log returns the handler has returned.
C15_LogInvokesHandlerOnce ==
    \A c \in Callers :
        (InCall(c, "Log") /\ Registered(call[c].name))
        => /\ inv[c] = <<[h |-> RegisteredHandler(call[c].name),
                          name |-> call[c].name,
                          data |-> call[c].data]>>
           /\ ((pc[c] = "returned" /\ ret[c].kind # "panic")
               => hres[c].kind # "none" /\ ret[c] = hres[c])
           /\ (pc[c] # "returned" => hres[c].kind = "none" /\ ret[c].kind = "none")

\* Log has returned from the custom handler it called with two data items.
C15_Witness ==
    \E c \in Callers :
        /\ pc[c] = "returned" /\ call[c].op = "Log"
        /\ Registered(call[c].name)
        /\ Len(call[c].data) = 2
        /\ inv[c] # <<>> /\ inv[c][1].h = "LogEventHandler"
        /\ hres[c].kind = "nil"

\* C16: DefaultSyncHandler has one lock for all channels: two invocations
\* under different channel names are never in the write sequence together,
\* and no fragment of one lies between two fragments of the other.
SyncCaller(c) == inv[c] # <<>> /\ inv[c][1].h = "DefaultSyncHandler"
C16_OneLockForAllChannels ==
    \A c, d \in Callers :
        (c # d /\ SyncCaller(c) /\ SyncCaller(d) /\ inv[c][1].name # inv[d][1].name)
        => /\ ~(InWriteSequence(c) /\ InWriteSequence(d))
           /\ \A i, j, k \in 1..Len(out) :
                 (i < j /\ j < k) => ~(out[i].by = c /\ out[j].by = d /\ out[k].by = c)

\* Two goroutines have logged through DefaultSyncHandler under different
\* channel names and both lines are written.
C16_Witness ==
    \E c, d \in Callers :
        /\ c # d /\ SyncCaller(c) /\ SyncCaller(d)
        /\ inv[c][1].name # inv[d][1].name
        /\ pc[c] = "returned" /\ pc[d] = "returned"
        /\ Wrote(c) = LineOf(c) /\ Wrote(d) = LineOf(d)

\* C17: under fair scheduling every Log call that entered DefaultSyncHandler
\* with a string payload gets the lock, writes its line and returns nil, and
\* the lock is free once all the concurrent callers have returned.
C17_EverySyncCallReturns ==
    /\ \A w \in Workers :
          InsideSync(w) ~> (pc[w] = "returned" /\ ret[w].kind = "nil" /\ Wrote(w) = LineOf(w))
    /\ []((\A w \in Workers : pc[w] = "returned") => handlerMutex = FALSE)

\* All the spawned goroutines have returned from DefaultSyncHandler and the
\* lock is free.
C17_Witness ==
    /\ \A w \in Workers : pc[w] = "returned" /\ SyncCaller(w) /\ call[w].op = "Log"
    /\ \A v, w \in Workers : inv[v][1].name = inv[w][1].name
    /\ handlerMutex = FALSE

\* C18: Log and Logsf only read the registry: no step of a Log or Logsf
\* call, failing or successful, through the handler and back, changes the
\* registry.
C18_LogOnlyReadsRegistry ==
    [][(\E c \in Callers : pc'[c] # pc[c] \/ idx'[c] # idx[c] \/ call'[c] # call[c])
       => handlers' = handlers]_vars

\* A Log call has failed and a Logsf call has gone through DefaultSyncHandler,
\* and the registry is what was registered.
C18_Witness ==
    \E c, d \in Callers :
        /\ c # d
        /\ pc[c] = "returned" /\ call[c].op = "Log" /\ ret[c].kind = "error"
        /\ pc[d] = "returned" /\ call[d].op = "Logsf" /\ ret[d].kind = "nil"
        /\ SyncCaller(d)
        /\ RegistryAsRegistered

\* C19: Deregister(n) removes the mapping of n if there is one and changes
\* nothing if there is none; Register(n, h) and Deregister(n) leave the
\* mapping of every other name as it was.
Mapping(m, n) == {e \in m : e[1] = n}
C19_OtherNamesUntouched ==
    [][\A n \in Names :
          /\ lastReg'[n] = lastReg[n] => Mapping(handlers', n) = Mapping(handlers, n)
          /\ lastReg'[n] = "Deregister" => Mapping(handlers', n) = {}
          /\ (lastReg[n] = "none" /\ lastReg'[n] = "Deregister") => handlers' = handlers
      ]_vars

\* One name has been deregistered after it was registered and the other name
\* still has its handler.
C19_Witness ==
    \E n, m \in Names :
        /\ n # m
        /\ n \in everReg /\ lastReg[n] = "Deregister" /\ ~MapHas(handlers, n)
        /\ Registered(m) /\ MapGet(handlers, m) = {RegisteredHandler(m)}

\* C20: DefaultSyncHandler is a drop-in replacement for DefaultHandler: an
\* invocation run without concurrent callers is not kept waiting for the lock,
\* and when it has ended it has written what DefaultHandler writes for the
\* same name and data and ended with the result of the inner DefaultHandler
\* call.
C20_SyncHandlerIsDropIn ==
    \A c \in Callers :
        (SyncCaller(c) /\ OthersIdle(c))
        => /\ (pc[c] = "lock" => MutexFree(handlerMutex))
           /\ (pc[c] = "returned"
               => /\ out = Wrote(c)
                  /\ IF HasPanickingStringer(inv[c][1].data)
                     THEN /\ FlatText(out) = <<"15:04:05.000", " ", inv[c][1].name, ": ">>
                                             \o ExpectedRenderings(BeforePanic(inv[c][1].data))
                          /\ ret[c].kind = "panic"
                     ELSE /\ FlatText(out) = ExpectedLine(inv[c][1].name, inv[c][1].data)
                          /\ ret[c].kind = "nil")

\* C13: the registry map is not synchronized: Register, Deregister and the
\* lookup of Log take no lock. A goroutine that makes no call can begin any
\* of them whatever the other goroutines are doing with the map and whoever
\* holds the mutex of DefaultSyncHandler, and an access in progress can be
\* completed; so two goroutines can be in the map at once, one of them writing.
C13_MapAccessNeverWaits ==
    \A c \in Callers :
        /\ pc[c] = "idle"
           => /\ \A n \in RaceNames, h \in RaceHandlers : ENABLED BeginRegister(c, n, h)
              /\ \A n \in RaceNames : ENABLED BeginDeregister(c, n)
              /\ \A n \in RaceNames : ENABLED BeginLookup(c, n, Payload(c))
        /\ pc[c] = "mapassign" => ENABLED EndRegister(c)
        /\ pc[c] = "mapdelete" => ENABLED EndDeregister(c)
        /\ pc[c] = "mapaccess" => ENABLED EndLookup(c)
        /\ \A d \in Callers \ {c} :
              (InMapAccess(c) /\ InMapAccess(d) /\ (MapWriting(c) \/ MapWriting(d)))
              => call[c].raced /\ call[d].raced

\* A data race: a lookup is in progress while two goroutines are writing the
\* map, one with Register and one with Deregister.
C13_Witness ==
    \E c, d, r \in Callers :
        /\ pc[c] = "mapassign" /\ pc[d] = "mapdelete" /\ pc[r] = "mapaccess"
        /\ call[c].name = call[d].name /\ call[r].name = call[c].name
        /\ call[c].raced /\ call[d].raced /\ call[r].raced

====
